---- MODULE Spec2Model ----
(***************************************************************************)
(* Market-data client of the crypto dashboard: the TTL response cache      *)
(* (cache_response) and the retrying request loop (_make_request) of       *)
(* src/src/api/binance_client.py, driven by one synchronous caller.        *)
(***************************************************************************)
EXTENDS Integers, Sequences, FiniteSets, TLC

(* ------------------------------- bounds -------------------------------- *)

\* Largest max_retries a client is constructed with.
MaxRetries == 3
\* Largest max_retries of the client whose cached operations are timed.
MaxCacheRetries == 1
\* Number of public-operation calls the caller makes in one behaviour.
MaxCalls == 3
\* Largest number of holdings of a portfolio.
MaxHoldings == 3
\* Number of runs of the homepage script in one browser session.
MaxRenders == 6

(* -------------------------- program constants -------------------------- *)

TTL_EXCHANGE_INFO == 3600
TTL_TICKER == 30
TTL_KLINES == 300
DEFAULT_LIMIT == 500
MAX_LIMIT == 1000

(* ------------------------------- values -------------------------------- *)

\* Python values that occur as arguments: None, a str, an int.
PyNone == [t |-> "None"]
PyStr(s) == [t |-> "str", s |-> s]
PyInt(n) == [t |-> "int", n |-> n]
VARIABLE
    self           \* the BinanceClient instance the caller calls through

\* The client instance, the first positional argument of every method; id
\* is its address, different for instances alive at the same time.
PySelf == [t |-> "object", id |-> self]

Symbols == {"btcusdt", "BTCUSDT"}
Intervals == {"1h"}
Limits == {100, 1000, 1001, 1500}
\* Pauses of the caller between two calls, in seconds.
TickSteps == {1, TTL_TICKER - 1, TTL_KLINES - 1}

CachedOps == {"get_exchange_info", "get_ticker_24hr", "get_klines"}

\* The TTL each operation is decorated with.
ttl_seconds(op) ==
    CASE op = "get_exchange_info" -> TTL_EXCHANGE_INFO
      [] op = "get_ticker_24hr" -> TTL_TICKER
      [] op = "get_klines" -> TTL_KLINES

\* The calls the caller may make: positional arguments after self, and
\* keyword arguments in the order they are written at the call site.
Calls ==
    {[op |-> "get_server_time", args |-> <<>>, kwargs |-> <<>>],
     [op |-> "get_exchange_info", args |-> <<>>, kwargs |-> <<>>],
     [op |-> "get_ticker_24hr", args |-> <<>>, kwargs |-> <<>>],
     [op |-> "get_ticker_24hr", args |-> <<PyNone>>, kwargs |-> <<>>],
     [op |-> "get_ticker_24hr", args |-> <<PyStr("")>>, kwargs |-> <<>>]}
    \cup {[op |-> "get_ticker_24hr", args |-> <<PyStr(s)>>, kwargs |-> <<>>] :
            s \in Symbols}
    \cup {[op |-> "get_ticker_24hr", args |-> <<>>,
           kwargs |-> <<<<"symbol", PyStr(s)>>>>] : s \in Symbols}
    \cup {[op |-> "get_klines", args |-> <<PyStr(s), PyStr(i)>>,
           kwargs |-> <<>>] : s \in Symbols, i \in Intervals}
    \cup {[op |-> "get_klines", args |-> <<PyStr("BTCUSDT"), PyStr(i), PyInt(l)>>,
           kwargs |-> <<>>] : i \in Intervals, l \in Limits}
    \cup {[op |-> "get_klines", args |-> <<>>,
           kwargs |-> <<<<"symbol", PyStr("BTCUSDT")>>, <<"interval", PyStr(i)>>>>] :
            i \in Intervals}
    \cup {[op |-> "get_klines", args |-> <<>>,
           kwargs |-> <<<<"interval", PyStr(i)>>, <<"symbol", PyStr("BTCUSDT")>>>>] :
            i \in Intervals}


\* The calls of a caller that polls one ticker, under two spellings of the
\* symbol, and one candlestick history.
TimedCalls ==
    {[op |-> "get_ticker_24hr", args |-> <<PyStr(s)>>, kwargs |-> <<>>] :
        s \in {"btcusdt", "BTCUSDT"}}
    \cup {[op |-> "get_klines", args |-> <<PyStr("BTCUSDT"), PyStr("1h")>>,
           kwargs |-> <<>>]}

\* The calls of a caller that only asks for the server time.
ServerTimeCalls == {c \in Calls : c.op = "get_server_time"}

(* ---------------------------- the cache key ---------------------------- *)

Digits == <<"0", "1", "2", "3", "4", "5", "6", "7", "8", "9">>

\* str(n) of a non-negative int: its decimal digits.
RECURSIVE IntToStr(_)
IntToStr(n) ==
    IF n < 10 THEN Digits[n + 1]
    ELSE IntToStr(n \div 10) \o Digits[(n % 10) + 1]

\* Mutant: the repr of a client names its class only (a __repr__ of its own).
Repr_ClassOnly(v) ==
    CASE v.t = "None" -> "None"
      [] v.t = "str" -> "'" \o v.s \o "'"
      [] v.t = "int" -> IntToStr(v.n)
      [] v.t = "object" -> "<BinanceClient>"

\* repr(v) of an argument value (strings here hold no quote or backslash).
Repr(v) ==
    CASE v.t = "None" -> "None"
      [] v.t = "str" -> "'" \o v.s \o "'"
      [] v.t = "int" -> IntToStr(v.n)
      [] v.t = "object" ->
           "<src.api.binance_client.BinanceClient object at 0x" \o IntToStr(v.id) \o ">"

\* The elements of a sequence of strings, separated by ", ".
RECURSIVE Join(_)
Join(strs) ==
    IF strs = <<>> THEN ""
    ELSE IF Len(strs) = 1 THEN strs[1]
    ELSE strs[1] \o ", " \o Join(Tail(strs))

\* str(args) of a tuple: a one-element tuple is written with a trailing comma.
StrTuple(args) ==
    "(" \o Join([i \in DOMAIN args |-> Repr(args[i])])
        \o (IF Len(args) = 1 THEN "," ELSE "") \o ")"

\* str(items) of a list of (name, value) pairs.
StrItems(items) ==
    "[" \o Join([i \in DOMAIN items |->
                   "(" \o Repr(PyStr(items[i][1])) \o ", " \o Repr(items[i][2]) \o ")"])
        \o "]"

\* Python's order on the parameter names that occur: "interval" < "limit" < "symbol".
NameRank(name) ==
    CASE name = "interval" -> 1
      [] name = "limit" -> 2
      [] name = "symbol" -> 3

\* Insert one (name, value) pair into a list sorted by name.
RECURSIVE Insert(_, _)
Insert(item, sorted) ==
    IF sorted = <<>> THEN <<item>>
    ELSE IF NameRank(item[1]) <= NameRank(sorted[1][1]) THEN <<item>> \o sorted
    ELSE <<sorted[1]>> \o Insert(item, Tail(sorted))

\* Mutant: the keyword arguments are taken in call order, unsorted.
SortedItems_Unsorted(kwargs) == kwargs

\* sorted(kwargs.items()): keyword names are distinct, so the name decides.
RECURSIVE SortedItems(_)
SortedItems(kwargs) ==
    IF kwargs = <<>> THEN <<>>
    ELSE Insert(kwargs[1], SortedItems(Tail(kwargs)))

\* Mutant: the key is the function name alone.
CacheKey_NameOnly(op, args, kwargs) == op

\* f"{func.__name__}:{str(args)}:{str(sorted(kwargs.items()))}"
CacheKey(op, args, kwargs) ==
    op \o ":" \o StrTuple(<<PySelf>> \o args) \o ":" \o StrItems(SortedItems(kwargs))

(* ------------------------- the outgoing request ------------------------ *)

\* The value bound to the parameter at position i (after self) named name.
Bind(c, i, name, default) ==
    IF i <= Len(c.args) THEN c.args[i]
    ELSE IF \E k \in DOMAIN c.kwargs : c.kwargs[k][1] = name
         THEN c.kwargs[CHOOSE k \in DOMAIN c.kwargs : c.kwargs[k][1] = name][2]
         ELSE default

Lowercase == "abcdefghijklmnopqrstuvwxyz"
Uppercase == "ABCDEFGHIJKLMNOPQRSTUVWXYZ"

\* The character at position i of a string, as a string of length one.
CharAt(s, i) == SubSeq(s, i, i)

LowerLetters == {CharAt(Lowercase, j) : j \in 1..Len(Lowercase)}

\* The uppercase letter of each lowercase letter.
UpperOf ==
    [ch \in LowerLetters |->
        CharAt(Uppercase, CHOOSE j \in 1..Len(Lowercase) : CharAt(Lowercase, j) = ch)]

\* str.upper() of one ASCII character.
UpperChar(ch) == IF ch \in LowerLetters THEN UpperOf[ch] ELSE ch

\* Mutant: the symbol is sent as it was given.
Upper_Unchanged(s) == s

\* str.upper() of an ASCII string.
RECURSIVE Upper(_)
Upper(s) ==
    IF s = "" THEN "" ELSE UpperChar(Head(s)) \o Upper(Tail(s))

\* Mutant: the requested limit goes out as it is.
Min_FirstArgument(a, b) == a

Min(a, b) == IF a <= b THEN a ELSE b

\* Python truthiness of an argument value.
Truthy(v) ==
    CASE v.t = "None" -> FALSE
      [] v.t = "str" -> v.s # ""
      [] v.t = "int" -> v.n # 0

\* The endpoint and params each public operation passes to _make_request.
Request(c) ==
    CASE c.op = "get_server_time" -> [endpoint |-> "/time", params |-> PyNone]
      [] c.op = "get_exchange_info" -> [endpoint |-> "/exchangeInfo", params |-> PyNone]
      [] c.op = "get_ticker_24hr" ->
           LET symbol == Bind(c, 1, "symbol", PyNone) IN
           [endpoint |-> "/ticker/24hr",
            params |-> IF Truthy(symbol)
                       THEN [t |-> "dict", symbol |-> Upper(symbol.s)]
                       ELSE [t |-> "dict"]]
      [] c.op = "get_klines" ->
           LET symbol == Bind(c, 1, "symbol", PyNone)
               interval == Bind(c, 2, "interval", PyNone)
               limit == Bind(c, 3, "limit", PyInt(DEFAULT_LIMIT)) IN
           [endpoint |-> "/klines",
            params |-> [t |-> "dict", symbol |-> Upper(symbol.s),
                        interval |-> interval.s, limit |-> Min(limit.n, MAX_LIMIT)]]

(* ------------------------------- state --------------------------------- *)

VARIABLES
    max_retries,   \* self.max_retries, fixed at construction
    now,           \* time.time(), in seconds
    cache,         \* per decorated operation: cache_key -> [data, timestamp]
    pc,            \* "idle", "request" (inside _make_request), "returned", "raised"
    call,          \* the call in progress or last made
    cache_key,     \* wrapper local
    current_time,  \* wrapper local
    attempt,       \* loop variable of _make_request
    result,        \* value returned, or exception raised, by the call
    from_cache,    \* the call was answered by the cache
    swept,         \* keys the wrapper deleted in this call
    requests,      \* session.get calls of this call (mock_get.call_count)
    sleeps,        \* time.sleep durations of this call, in order
    responses,     \* what each attempt of this call met, in order
    req,           \* endpoint and params handed to _make_request
    ncalls,        \* calls made so far
    session_state, \* st.session_state of the browser session
    page,          \* what the last run of the homepage script fetched and drew
    callers,       \* the instance each call so far was made through, in order
    threads,       \* per thread calling at the same time: the wrapper's locals
    fetch          \* fetch_btc_eth_data: its position, btc_data, what it returned

vars == <<max_retries, now, cache, pc, call, cache_key, current_time, attempt,
          result, from_cache, swept, requests, sleeps, responses, req, ncalls,
          session_state, page, self, callers, threads, fetch>>

\* The threads (script runs of two browser sessions) that may call together.
Threads == {1, 2}

\* Nothing of the homepage has run yet.
NoPage == [run |-> 0]

\* fetch_btc_eth_data not running.
NoFetch == [pc |-> "idle", entered |-> 0, btc_data |-> PyNone, result |-> PyNone]

NoResult == [kind |-> "none"]
Value(body) == [kind |-> "value", body |-> body]
Exception(type, msg) == [kind |-> "exception", type |-> type, msg |-> msg]
BinanceAPIError(msg) == Exception("BinanceAPIError", msg)

\* A client constructed with some max_retries, empty caches, nothing called yet.
InitWith(retries) ==
    /\ max_retries \in retries
    /\ now = 0
    /\ cache = [op \in CachedOps |-> <<>>]
    /\ pc = "idle"
    /\ call = [op |-> "none", args |-> <<>>, kwargs |-> <<>>]
    /\ cache_key = ""
    /\ current_time = 0
    /\ attempt = 0
    /\ result = NoResult
    /\ from_cache = FALSE
    /\ swept = {}
    /\ requests = 0
    /\ sleeps = <<>>
    /\ responses = <<>>
    /\ req = [endpoint |-> "", params |-> PyNone]
    /\ ncalls = 0
    /\ session_state = <<>>
    /\ page = NoPage
    /\ self = 1
    /\ callers = <<>>
    /\ threads = [t \in Threads |-> [pc |-> "idle"]]
    /\ fetch = NoFetch

(* ------------------------------ the wrapper ---------------------------- *)

\* Mutant: an entry expires only once it is older than the TTL.
KeysToRemove_StrictlyOlder(entries, t, ttl) ==
    {key \in DOMAIN entries : t - entries[key].timestamp > ttl}

\* keys_to_remove: the entries of one cache that are expired at time t.
KeysToRemove(entries, t, ttl) ==
    {key \in DOMAIN entries : t - entries[key].timestamp >= ttl}

\* Mutant: nothing is deleted before the lookup.
Sweep_Nothing(entries, t, ttl) == entries

\* Mutant: only one expired entry is deleted at each access.
Sweep_OneExpired(entries, t, ttl) ==
    LET expired == KeysToRemove(entries, t, ttl) IN
    IF expired = {} THEN entries
    ELSE [key \in (DOMAIN entries) \ {CHOOSE k \in expired : TRUE} |-> entries[key]]

\* The cache after "del cache[key]" for every key to remove.
Sweep(entries, t, ttl) ==
    [key \in (DOMAIN entries) \ KeysToRemove(entries, t, ttl) |-> entries[key]]

\* Mutant: the cache holds one entry, a store drops the others.
Store_CapacityOne(entries, key, data, t) ==
    [k \in {key} |-> [data |-> data, timestamp |-> t]]

\* cache[cache_key] = (result, current_time)
Store(entries, key, data, t) ==
    [k \in (DOMAIN entries) \cup {key} |->
        IF k = key THEN [data |-> data, timestamp |-> t] ELSE entries[k]]

\* The caller starts a call: the observations of the previous call are reset.
BeginCall(c) ==
    /\ pc # "request"
    /\ ncalls < MaxCalls
    /\ ncalls' = ncalls + 1
    /\ call' = c
    /\ requests' = 0
    /\ sleeps' = <<>>
    /\ responses' = <<>>
    /\ callers' = Append(callers, self)
    /\ UNCHANGED <<max_retries, now, session_state, page, self, threads, fetch>>

\* The arguments as the outgoing request carries them.
RequestArguments(c) ==
    LET params == Request(c).params IN
    IF params = PyNone THEN <<>>
    ELSE (IF "symbol" \in DOMAIN params THEN <<PyStr(params.symbol)>> ELSE <<>>)
         \o (IF "interval" \in DOMAIN params THEN <<PyStr(params.interval)>> ELSE <<>>)
         \o (IF "limit" \in DOMAIN params THEN <<PyInt(params.limit)>> ELSE <<>>)

\* Mutant: the key is built from what is sent, after upper-casing and clamping.
CallCached_KeyOfRequest(c) ==
    /\ c.op \in CachedOps
    /\ BeginCall(c)
    /\ LET key == CacheKey(c.op, RequestArguments(c), <<>>)
           kept == Sweep(cache[c.op], now, ttl_seconds(c.op))
       IN /\ cache_key' = key
          /\ current_time' = now
          /\ swept' = KeysToRemove(cache[c.op], now, ttl_seconds(c.op))
          /\ cache' = [cache EXCEPT ![c.op] = kept]
          /\ IF key \in DOMAIN kept
             THEN /\ from_cache' = TRUE
                  /\ result' = Value(kept[key].data)
                  /\ pc' = "returned"
                  /\ UNCHANGED <<attempt, req>>
             ELSE /\ from_cache' = FALSE
                  /\ result' = NoResult
                  /\ pc' = "request"
                  /\ attempt' = 0
                  /\ req' = Request(c)

\* Mutant: sliding expiration, a hit stamps the entry with the time of the hit.
CallCached_SlidingExpiration(c) ==
    /\ c.op \in CachedOps
    /\ BeginCall(c)
    /\ LET key == CacheKey(c.op, c.args, c.kwargs)
           kept == Sweep(cache[c.op], now, ttl_seconds(c.op))
       IN /\ cache_key' = key
          /\ current_time' = now
          /\ swept' = KeysToRemove(cache[c.op], now, ttl_seconds(c.op))
          /\ IF key \in DOMAIN kept
             THEN /\ cache' = [cache EXCEPT ![c.op] =
                                 Store(kept, key, kept[key].data, now)]
                  /\ from_cache' = TRUE
                  /\ result' = Value(kept[key].data)
                  /\ pc' = "returned"
                  /\ UNCHANGED <<attempt, req>>
             ELSE /\ cache' = [cache EXCEPT ![c.op] = kept]
                  /\ from_cache' = FALSE
                  /\ result' = NoResult
                  /\ pc' = "request"
                  /\ attempt' = 0
                  /\ req' = Request(c)

\* wrapper(*args, **kwargs) up to the lookup: a hit returns the stored data,
\* a miss enters the decorated method, which enters _make_request.
CallCached(c) ==
    /\ c.op \in CachedOps
    /\ BeginCall(c)
    /\ LET key == CacheKey(c.op, c.args, c.kwargs)
           kept == Sweep(cache[c.op], now, ttl_seconds(c.op))
       IN /\ cache_key' = key
          /\ current_time' = now
          /\ swept' = KeysToRemove(cache[c.op], now, ttl_seconds(c.op))
          /\ cache' = [cache EXCEPT ![c.op] = kept]
          /\ IF key \in DOMAIN kept
             THEN /\ from_cache' = TRUE
                  /\ result' = Value(kept[key].data)
                  /\ pc' = "returned"
                  /\ UNCHANGED <<attempt, req>>
             ELSE /\ from_cache' = FALSE
                  /\ result' = NoResult
                  /\ pc' = "request"
                  /\ attempt' = 0
                  /\ req' = Request(c)

\* Mutant: the server time is remembered, a call right after one that
\* returned it is answered without a request.
CallServerTime_Memoized(c) ==
    /\ c.op = "get_server_time"
    /\ BeginCall(c)
    /\ cache_key' = ""
    /\ current_time' = current_time
    /\ swept' = {}
    /\ UNCHANGED cache
    /\ IF pc = "returned" /\ call.op = "get_server_time"
       THEN /\ from_cache' = TRUE
            /\ result' = result
            /\ pc' = "returned"
            /\ UNCHANGED <<attempt, req>>
       ELSE /\ from_cache' = FALSE
            /\ result' = NoResult
            /\ pc' = "request"
            /\ attempt' = 0
            /\ req' = Request(c)

\* get_server_time(): not decorated, straight into _make_request.
CallServerTime(c) ==
    /\ c.op = "get_server_time"
    /\ BeginCall(c)
    /\ cache_key' = ""
    /\ current_time' = current_time
    /\ swept' = {}
    /\ from_cache' = FALSE
    /\ result' = NoResult
    /\ pc' = "request"
    /\ attempt' = 0
    /\ req' = Request(c)
    /\ UNCHANGED cache

(* --------------------------- _make_request ----------------------------- *)

\* One pass of the loop body starts with session.get: the request is issued.
Attempt(met) ==
    /\ pc = "request"
    /\ attempt \in 0..max_retries
    /\ requests' = requests + 1
    /\ responses' = Append(responses, met)
    /\ UNCHANGED <<max_retries, call, cache_key, current_time, from_cache, swept,
                   req, ncalls, session_state, page, self, callers,
                   threads, fetch>>

\* Mutant: the public operation hands back an envelope around the parsed body.
Return_Enveloped(data) ==
    /\ pc' = "returned"
    /\ result' = Value([data |-> data])
    /\ cache' = IF call.op \in CachedOps
                THEN [cache EXCEPT ![call.op] =
                        Store(cache[call.op], cache_key, data, current_time)]
                ELSE cache
    /\ UNCHANGED <<now, attempt, sleeps>>

\* Mutant: the entry is stamped with the time the response arrived.
Return_StampsResponseTime(data) ==
    /\ pc' = "returned"
    /\ result' = Value(data)
    /\ cache' = IF call.op \in CachedOps
                THEN [cache EXCEPT ![call.op] =
                        Store(cache[call.op], cache_key, data, now)]
                ELSE cache
    /\ UNCHANGED <<now, attempt, sleeps>>

\* _make_request returns data: a decorated method's wrapper stores it first.
Return(data) ==
    /\ pc' = "returned"
    /\ result' = Value(data)
    /\ cache' = IF call.op \in CachedOps
                THEN [cache EXCEPT ![call.op] =
                        Store(cache[call.op], cache_key, data, current_time)]
                ELSE cache
    /\ UNCHANGED <<now, attempt, sleeps>>

\* Mutant: the wrapper stores the failure of a decorated method too.
Raise_StoresFailure(exc) ==
    /\ pc' = "raised"
    /\ result' = exc
    /\ cache' = IF call.op \in CachedOps
                THEN [cache EXCEPT ![call.op] =
                        Store(cache[call.op], cache_key, exc, current_time)]
                ELSE cache
    /\ UNCHANGED <<now, attempt, sleeps>>

\* An exception leaves _make_request and the wrapper: nothing is stored.
Raise(exc) ==
    /\ pc' = "raised"
    /\ result' = exc
    /\ UNCHANGED <<now, attempt, sleeps, cache>>

\* Mutant: a retry does not use up an attempt (a "while True" loop).
SleepAndContinue_SameAttempt(wait_time) ==
    /\ now' = now + wait_time
    /\ sleeps' = Append(sleeps, wait_time)
    /\ attempt' = attempt
    /\ UNCHANGED <<pc, result, cache>>

\* time.sleep(wait_time); continue
SleepAndContinue(wait_time) ==
    /\ now' = now + wait_time
    /\ sleeps' = Append(sleeps, wait_time)
    /\ attempt' = attempt + 1
    /\ UNCHANGED <<pc, result, cache>>

\* Mutant: the wait grows linearly, 2 * attempt for 2 ** attempt.
RetryOrRaise_LinearBackoff(msg) ==
    IF attempt < max_retries
    THEN SleepAndContinue(2 * attempt)
    ELSE Raise(BinanceAPIError(msg))

\* Mutant: the last retry is given up one attempt early.
RetryOrRaise_EarlyRaise(msg) ==
    IF attempt < max_retries - 1
    THEN SleepAndContinue(2 ^ attempt)
    ELSE Raise(BinanceAPIError(msg))

\* Mutant: the backoff sleep is taken on the last attempt too, then the raise.
RetryOrRaise_SleepBeforeRaise(msg) ==
    IF attempt < max_retries
    THEN SleepAndContinue(2 ^ attempt)
    ELSE /\ now' = now + 2 ^ attempt
         /\ sleeps' = Append(sleeps, 2 ^ attempt)
         /\ pc' = "raised"
         /\ result' = BinanceAPIError(msg)
         /\ UNCHANGED <<attempt, cache>>

\* Mutant: the last pass of the loop sleeps and goes on like the others.
RetryOrRaise_NeverRaises(msg) == SleepAndContinue(2 ^ attempt)

\* The retry policy every failure branch repeats.
RetryOrRaise(msg) ==
    IF attempt < max_retries
    THEN SleepAndContinue(2 ^ attempt)
    ELSE Raise(BinanceAPIError(msg))

\* response.status_code == 429
AttemptRateLimited ==
    /\ Attempt("429")
    /\ RetryOrRaise("Rate limit exceeded after all retries")

\* response.status_code is neither 429 nor 200
AttemptHTTPError(status, text) ==
    /\ Attempt("http")
    /\ RetryOrRaise("Request failed after all retries: HTTP "
                    \o IntToStr(status) \o ": " \o text)

\* The body the upstream serves: every call gets a body of its own, labelled
\* with the call's serial number and with the call it answers.
Body == [serial |-> ncalls, answers |-> call]

\* status 200, response.json() parses
AttemptOK ==
    /\ Attempt("ok")
    /\ Return(Body)

\* Mutant: the parse error is retried like a transport error.
AttemptInvalidJSON_Retried(e) ==
    /\ Attempt("badjson")
    /\ RetryOrRaise("Invalid JSON response: " \o e)

\* Mutant: the ValueError of response.json() is not caught.
AttemptInvalidJSON_Uncaught(e) ==
    /\ Attempt("badjson")
    /\ Raise(Exception("ValueError", e))

\* status 200, response.json() raises ValueError
AttemptInvalidJSON(e) ==
    /\ Attempt("badjson")
    /\ Raise(BinanceAPIError("Invalid JSON response: " \o e))

\* Mutant: no handler of its own for Timeout, the RequestException one takes it.
AttemptTimeout_AsRequestException ==
    /\ Attempt("timeout")
    /\ RetryOrRaise("Request failed after all retries: Request timeout")

\* Mutant: timeouts back off by their own count, not by the attempt number.
AttemptTimeout_OwnCounter ==
    /\ Attempt("timeout")
    /\ IF attempt < max_retries
       THEN SleepAndContinue(
              2 ^ Cardinality({i \in DOMAIN responses : responses[i] = "timeout"}))
       ELSE Raise(BinanceAPIError("Request timeout after all retries"))

\* session.get raises requests.exceptions.Timeout
AttemptTimeout ==
    /\ Attempt("timeout")
    /\ RetryOrRaise("Request timeout after all retries")

\* session.get raises another requests.exceptions.RequestException
AttemptRequestException(e) ==
    /\ Attempt("error")
    /\ RetryOrRaise("Request failed after all retries: " \o e)

\* The loop ends without return or raise: the statement after it.
FallThrough ==
    /\ pc = "request"
    /\ attempt \notin 0..max_retries
    /\ Raise(BinanceAPIError("Unexpected error in request handling"))
    /\ UNCHANGED <<max_retries, call, cache_key, current_time, from_cache, swept,
                   req, ncalls, requests, responses, session_state, page, self,
                   callers, threads, fetch>>

(* ------------------------------ the clock ------------------------------ *)

\* Time passes between two calls of the caller; what was observed of the
\* last call is forgotten.
Tick(d) ==
    /\ pc \in {"returned", "raised"}
    /\ pc' = "idle"
    /\ now' = now + d
    /\ call' = [op |-> "none", args |-> <<>>, kwargs |-> <<>>]
    /\ cache_key' = ""
    /\ current_time' = 0
    /\ attempt' = 0
    /\ result' = NoResult
    /\ from_cache' = FALSE
    /\ swept' = {}
    /\ requests' = 0
    /\ sleeps' = <<>>
    /\ responses' = <<>>
    /\ req' = [endpoint |-> "", params |-> PyNone]
    /\ UNCHANGED <<max_retries, cache, ncalls, session_state, page, self, callers,
                   threads, fetch>>

\* One pass of the loop body of _make_request, whatever the attempt meets.
AttemptStep ==
    \/ AttemptRateLimited
    \/ AttemptHTTPError(500, "Internal Server Error")
    \/ AttemptOK
    \/ AttemptInvalidJSON("Invalid JSON")
    \/ AttemptTimeout
    \/ AttemptRequestException("Connection refused")

(* --------------------------- specifications ---------------------------- *)

\* A client of any max_retries asked for the server time: _make_request alone.
InitRetry == InitWith((-1)..MaxRetries)

NextRetry ==
    \/ \E c \in ServerTimeCalls : CallServerTime(c)
    \/ AttemptStep
    \/ FallThrough

SpecRetry == InitRetry /\ [][NextRetry]_vars

\* The loop of _make_request keeps running: session.get comes back or raises
\* within the timeout, time.sleep comes back.
FairSpecRetry == SpecRetry /\ WF_vars(AttemptStep \/ FallThrough)

\* A client polled while time passes: the cache and its TTL.
Init == InitWith(0..MaxCacheRetries)

Next ==
    \/ \E c \in TimedCalls : CallCached(c)
    \/ AttemptStep
    \/ \E d \in TickSteps : Tick(d)

Spec == Init /\ [][Next]_vars

\* A client called in every way at one instant: the cache keys.
InitKeys == InitWith({0})

NextKeys ==
    \/ \E c \in Calls : CallCached(c)
    \/ \E c \in Calls : CallServerTime(c)
    \/ AttemptStep

SpecKeys == InitKeys /\ [][NextKeys]_vars

(* ------------------------- several client instances -------------------- *)

\* The addresses of the instances alive together.
Clients == {1, 2}

\* The calls made through them: the two tickers of the homepage.
ClientCalls ==
    {[op |-> "get_ticker_24hr", args |-> <<PyStr(s)>>, kwargs |-> <<>>] :
        s \in {"BTCUSDT", "ETHUSDT"}}

\* The caller goes on with another instance; the cache of a decorated
\* method belongs to the function, not to the instance.
UseClient(i) ==
    /\ pc # "request"
    /\ i # self
    /\ self' = i
    /\ UNCHANGED <<max_retries, now, cache, pc, call, cache_key, current_time,
                   attempt, result, from_cache, swept, requests, sleeps, responses,
                   req, ncalls, session_state, page, callers,
                   threads, fetch>>

InitClients == InitWith({0})

NextClients ==
    \/ \E i \in Clients : UseClient(i)
    \/ \E c \in ClientCalls : CallCached(c)
    \/ AttemptStep

SpecClients == InitClients /\ [][NextClients]_vars

(* ----------------------- callers at the same time --------------------- *)

\* What the threads leave alone: the single caller's state.
OneCaller ==
    <<max_retries, now, pc, call, cache_key, current_time, attempt, result,
      from_cache, swept, requests, sleeps, responses, req, session_state, page,
      self, callers, fetch>>

\* Thread t enters the wrapper with call c: key, clock, sweep and lookup; a
\* hit returns the stored data, a miss goes on into the wrapped method.
WrapperLookup(t, c) ==
    /\ threads[t].pc # "in_func"
    /\ ncalls < MaxCalls
    /\ ncalls' = ncalls + 1
    /\ LET key == CacheKey(c.op, c.args, c.kwargs)
           kept == Sweep(cache[c.op], now, ttl_seconds(c.op))
       IN /\ cache' = [cache EXCEPT ![c.op] = kept]
          /\ threads' = [threads EXCEPT ![t] =
               IF key \in DOMAIN kept
               THEN [pc |-> "returned", call |-> c, serial |-> ncalls + 1,
                     cache_key |-> key, current_time |-> now, from_cache |-> TRUE,
                     result |-> Value(kept[key].data)]
               ELSE [pc |-> "in_func", call |-> c, serial |-> ncalls + 1,
                     cache_key |-> key, current_time |-> now, from_cache |-> FALSE,
                     result |-> NoResult]]
    /\ UNCHANGED OneCaller

\* Mutant: the first result stored under a key stays (dict.setdefault).
WrapperStore_FirstWins(t) ==
    /\ threads[t].pc = "in_func"
    /\ LET local == threads[t]
           data == [serial |-> local.serial, answers |-> local.call]
       IN /\ cache' = IF local.cache_key \in DOMAIN cache[local.call.op]
                      THEN cache
                      ELSE [cache EXCEPT ![local.call.op] =
                              Store(@, local.cache_key, data, local.current_time)]
          /\ threads' = [threads EXCEPT ![t].pc = "returned",
                                        ![t].result = Value(data)]
    /\ UNCHANGED <<ncalls, OneCaller>>

\* The wrapped method of thread t returns the data of its own request; the
\* wrapper stores it under the key with the clock it read, and returns it.
WrapperStore(t) ==
    /\ threads[t].pc = "in_func"
    /\ LET local == threads[t]
           data == [serial |-> local.serial, answers |-> local.call]
       IN /\ cache' = [cache EXCEPT ![local.call.op] =
                         Store(@, local.cache_key, data, local.current_time)]
          /\ threads' = [threads EXCEPT ![t].pc = "returned",
                                        ![t].result = Value(data)]
    /\ UNCHANGED <<ncalls, OneCaller>>

\* The wrapped method of thread t raises: nothing is stored.
WrapperRaise(t) ==
    /\ threads[t].pc = "in_func"
    /\ threads' = [threads EXCEPT
         ![t].pc = "raised",
         ![t].result = BinanceAPIError("Rate limit exceeded after all retries")]
    /\ UNCHANGED <<cache, ncalls, OneCaller>>

InitThreads == InitWith({3})

NextThreads ==
    \/ \E t \in Threads : \E c \in ClientCalls : WrapperLookup(t, c)
    \/ \E t \in Threads : WrapperStore(t)
    \/ \E t \in Threads : WrapperRaise(t)

SpecThreads == InitThreads /\ [][NextThreads]_vars

(* ---------------------- calculate_portfolio_value --------------------- *)

\* Numbers are exact: a quantity, price or value is an integer, a percentage
\* the fraction num / den.
Fraction(num, den) == [num |-> num, den |-> den]

\* percentage: float = 0.0
ZeroPercentage == Fraction(0, 1)

\* dict.get(key, default)
Get(dict, key, default) == IF key \in DOMAIN dict THEN dict[key] ELSE default

\* The holdings a portfolio may list.
HoldingChoices ==
    {[symbol |-> "BTC", quantity |-> 1], [symbol |-> "btc", quantity |-> 1],
     [symbol |-> "BTC", quantity |-> 0], [symbol |-> "ETH", quantity |-> 10],
     [symbol |-> "ADA", quantity |-> 1000], [symbol |-> "UNKNOWN", quantity |-> 100],
     [quantity |-> 5], [symbol |-> "ETH"]}

\* The price tables a portfolio may be valued with.
PriceChoices ==
    {[BTC |-> 45000, ETH |-> 3000, ADA |-> 1], [BTC |-> 45000, ETH |-> 3000],
     [BTC |-> 45000], <<>>}

PortfolioInputs ==
    {<<holdings, prices>> :
        holdings \in UNION {[1..n -> HoldingChoices] : n \in 0..MaxHoldings},
        prices \in PriceChoices}

PortfolioHolding(symbol, quantity, current_value, percentage) ==
    [symbol |-> symbol, quantity |-> quantity, current_value |-> current_value,
     percentage |-> percentage]

\* Mutant: a holding without a price is kept, valued at zero.
RECURSIVE FirstPass_ZeroesUnpriced(_, _, _)
FirstPass_ZeroesUnpriced(holdings, prices, acc) ==
    IF holdings = <<>> THEN acc
    ELSE LET holding == Head(holdings)
             symbol == Upper(Get(holding, "symbol", ""))
             quantity == Get(holding, "quantity", 0)
             current_value == IF symbol \in DOMAIN prices
                              THEN quantity * prices[symbol] ELSE 0
         IN FirstPass_ZeroesUnpriced(Tail(holdings), prices,
              [acc EXCEPT
                 !.total_value = @ + current_value,
                 !.portfolio_holdings =
                     Append(@, PortfolioHolding(symbol, quantity, current_value,
                                                ZeroPercentage))])

\* First pass: the loop over holdings, from the totals so far.
RECURSIVE FirstPass(_, _, _)
FirstPass(holdings, prices, acc) ==
    IF holdings = <<>> THEN acc
    ELSE LET holding == Head(holdings)
             symbol == Upper(Get(holding, "symbol", ""))
             quantity == Get(holding, "quantity", 0)
         IN FirstPass(Tail(holdings), prices,
              IF symbol \in DOMAIN prices
              THEN LET current_price == prices[symbol]
                       current_value == quantity * current_price
                   IN [acc EXCEPT
                         !.total_value = @ + current_value,
                         !.portfolio_holdings =
                             Append(@, PortfolioHolding(symbol, quantity,
                                                        current_value, ZeroPercentage))]
              ELSE [acc EXCEPT !.missing_symbols = Append(@, symbol)])

\* (holding.current_value / total_value) * 100; a zero divisor raises.
Percentage(current_value, total_value) ==
    IF total_value = 0 THEN [raised |-> "ZeroDivisionError"]
    ELSE Fraction(current_value * 100, total_value)

\* Mutant: the percentages are computed whatever the total.
SecondPass_Unguarded(portfolio_holdings, total_value) ==
    [i \in DOMAIN portfolio_holdings |->
        [portfolio_holdings[i] EXCEPT
            !.percentage = Percentage(portfolio_holdings[i].current_value, total_value)]]

\* Second pass: the percentages, when the total is positive.
SecondPass(portfolio_holdings, total_value) ==
    IF total_value > 0
    THEN [i \in DOMAIN portfolio_holdings |->
            [portfolio_holdings[i] EXCEPT
                !.percentage = Percentage(portfolio_holdings[i].current_value,
                                          total_value)]]
    ELSE portfolio_holdings

calculate_portfolio_value(holdings, prices) ==
    IF holdings = <<>>
    THEN [total_value |-> 0, portfolio_holdings |-> <<>>, missing_symbols |-> <<>>]
    ELSE LET first == FirstPass(holdings, prices,
                        [total_value |-> 0, portfolio_holdings |-> <<>>,
                         missing_symbols |-> <<>>])
         IN [first EXCEPT
               !.portfolio_holdings = SecondPass(@, first.total_value)]

\* The portfolio page values the holdings entered against the prices fetched.
CalculatePortfolioValue ==
    /\ pc = "idle"
    /\ call.op = "calculate_portfolio_value"
    /\ pc' = "returned"
    /\ result' = Value(calculate_portfolio_value(call.args[1], call.args[2]))
    /\ ncalls' = ncalls + 1
    /\ UNCHANGED <<max_retries, now, cache, call, cache_key, current_time, attempt,
                   from_cache, swept, requests, sleeps, responses, req,
                   session_state, page, self, callers, threads, fetch>>

\* The valuation of every portfolio, with every price table.
InitPortfolio ==
    /\ max_retries = 3
    /\ now = 0
    /\ cache = [op \in CachedOps |-> <<>>]
    /\ pc = "idle"
    /\ \E input \in PortfolioInputs :
         call = [op |-> "calculate_portfolio_value", args |-> input, kwargs |-> <<>>]
    /\ cache_key = ""
    /\ current_time = 0
    /\ attempt = 0
    /\ result = NoResult
    /\ from_cache = FALSE
    /\ swept = {}
    /\ requests = 0
    /\ sleeps = <<>>
    /\ responses = <<>>
    /\ req = [endpoint |-> "", params |-> PyNone]
    /\ ncalls = 0
    /\ session_state = <<>>
    /\ page = NoPage
    /\ self = 1
    /\ callers = <<>>
    /\ threads = [t \in Threads |-> [pc |-> "idle"]]
    /\ fetch = NoFetch

NextPortfolio == CalculatePortfolioValue

SpecPortfolio == InitPortfolio /\ [][NextPortfolio]_vars

(* ------------------------ validate_portfolio_input --------------------- *)

\* The characters str.strip() takes off both ends (the ASCII ones).
Whitespace == {" ", "\t", "\n"}

RECURSIVE LStrip(_)
LStrip(s) == IF s # "" /\ Head(s) \in Whitespace THEN LStrip(Tail(s)) ELSE s

RECURSIVE RStrip(_)
RStrip(s) ==
    IF s # "" /\ CharAt(s, Len(s)) \in Whitespace
    THEN RStrip(SubSeq(s, 1, Len(s) - 1))
    ELSE s

\* str.strip()
Strip(s) == RStrip(LStrip(s))

UpperLetters == {CharAt(Uppercase, j) : j \in 1..Len(Uppercase)}

\* re.match(r'^[A-Z]{2,10}$', s): $ also matches before a newline that ends s.
MatchesSymbol(s) ==
    LET core == IF s # "" /\ CharAt(s, Len(s)) = "\n"
                THEN SubSeq(s, 1, Len(s) - 1) ELSE s
    IN /\ Len(core) \in 2..10
       /\ \A i \in 1..Len(core) : CharAt(core, i) \in UpperLetters

DigitChars == {Digits[i] : i \in 1..Len(Digits)}

DigitValue == [ch \in DigitChars |-> (CHOOSE i \in 1..Len(Digits) : Digits[i] = ch) - 1]

\* The first position of s holding a character of chars, 0 when there is none.
IndexOf(s, chars) ==
    IF \E i \in 1..Len(s) : CharAt(s, i) \in chars
    THEN CHOOSE i \in 1..Len(s) :
            /\ CharAt(s, i) \in chars
            /\ \A j \in 1..(i - 1) : CharAt(s, j) \notin chars
    ELSE 0

\* A run of digits as float() reads it: underscores only between two digits.
IsDigitRun(s) ==
    /\ s # ""
    /\ \A i \in 1..Len(s) : CharAt(s, i) \in DigitChars \cup {"_"}
    /\ CharAt(s, 1) # "_"
    /\ CharAt(s, Len(s)) # "_"
    /\ \A i \in 1..(Len(s) - 1) : ~(CharAt(s, i) = "_" /\ CharAt(s, i + 1) = "_")

RECURSIVE DropUnderscores(_)
DropUnderscores(s) ==
    IF s = "" THEN ""
    ELSE (IF Head(s) = "_" THEN "" ELSE Head(s)) \o DropUnderscores(Tail(s))

RECURSIVE StrToNat(_)
StrToNat(s) ==
    IF s = "" THEN 0
    ELSE 10 * StrToNat(SubSeq(s, 1, Len(s) - 1)) + DigitValue[CharAt(s, Len(s))]

RECURSIVE DropLeadingZeros(_)
DropLeadingZeros(s) ==
    IF s # "" /\ Head(s) = "0" THEN DropLeadingZeros(Tail(s)) ELSE s

\* The floats: nan, the infinities, and sign * digits * 10^exp with digits
\* a decimal numeral without zeros at either end ("" for zero). A numeral of
\* up to 15 significant digits compares with 0 and 1e12 as its nearest double.
NaN == [kind |-> "nan"]
Inf(neg) == [kind |-> "inf", neg |-> neg]
RECURSIVE Finite(_, _, _)
Finite(neg, digits, exp) ==
    LET d == DropLeadingZeros(digits) IN
    IF d = "" THEN [kind |-> "finite", neg |-> neg, digits |-> "", exp |-> 0]
    ELSE IF CharAt(d, Len(d)) = "0" THEN Finite(neg, SubSeq(d, 1, Len(d) - 1), exp + 1)
    ELSE [kind |-> "finite", neg |-> neg, digits |-> d, exp |-> exp]

\* The power of ten a finite float other than zero begins at.
Order(q) == Len(q.digits) + q.exp - 1

ValueError == [kind |-> "ValueError"]

\* The exponent after e/E: a sign, then a run of digits.
ExponentOK(s) ==
    IF s # "" /\ Head(s) \in {"+", "-"} THEN IsDigitRun(Tail(s)) ELSE IsDigitRun(s)

ExponentValue(s) ==
    IF Head(s) = "-" THEN 0 - StrToNat(DropUnderscores(Tail(s)))
    ELSE IF Head(s) = "+" THEN StrToNat(DropUnderscores(Tail(s)))
    ELSE StrToNat(DropUnderscores(s))

\* A decimal numeral without sign, [digits][.digits][e[sign]digits].
ParseDecimal(neg, b) ==
    LET e == IndexOf(b, {"e", "E"})
        mant == IF e = 0 THEN b ELSE SubSeq(b, 1, e - 1)
        expo == IF e = 0 THEN "" ELSE SubSeq(b, e + 1, Len(b))
        dot == IndexOf(mant, {"."})
        ip == IF dot = 0 THEN mant ELSE SubSeq(mant, 1, dot - 1)
        fp == IF dot = 0 THEN "" ELSE SubSeq(mant, dot + 1, Len(mant))
        ok == /\ ip = "" \/ IsDigitRun(ip)
              /\ fp = "" \/ IsDigitRun(fp)
              /\ ~(ip = "" /\ fp = "")
              /\ e = 0 \/ ExponentOK(expo)
    IN IF ~ok THEN ValueError
       ELSE LET frac == DropUnderscores(fp)
                q == Finite(neg, DropUnderscores(ip) \o frac,
                            (IF e = 0 THEN 0 ELSE ExponentValue(expo)) - Len(frac))
            IN IF q.digits = "" THEN q
               ELSE IF Order(q) > 308 THEN Inf(neg)
               ELSE IF Order(q) < -324 THEN Finite(neg, "", 0)
               ELSE q

\* float(s) of a str: whitespace stripped, a sign, then nan, inf, infinity
\* in any case, or a decimal numeral.
Float(s) ==
    LET t == Strip(s)
        signed == t # "" /\ Head(t) \in {"+", "-"}
        neg == t # "" /\ Head(t) = "-"
        b == IF signed THEN Tail(t) ELSE t
    IN IF Upper(b) = "NAN" THEN NaN
       ELSE IF Upper(b) \in {"INF", "INFINITY"} THEN Inf(neg)
       ELSE ParseDecimal(neg, b)

\* q <= 0 and q > 1e12 of a float q; every comparison with nan is False.
LessEqualZero(q) ==
    /\ q.kind # "nan"
    /\ q.neg \/ (q.kind = "finite" /\ q.digits = "")

GreaterThan1e12(q) ==
    /\ q.kind # "nan"
    /\ ~q.neg
    /\ \/ q.kind = "inf"
       \/ /\ q.digits # ""
          /\ Order(q) > 12 \/ (Order(q) = 12 /\ q.digits # "1")

\* validate_portfolio_input(symbol, quantity): (valid, message, quantity)
validate_portfolio_input(symbol, quantity) ==
    IF ~Truthy(symbol) \/ symbol.t # "str"
    THEN <<FALSE, "Symbol is required", PyNone>>
    ELSE IF ~MatchesSymbol(Upper(Strip(symbol.s)))
    THEN <<FALSE, "Symbol must be 2-10 letters only", PyNone>>
    ELSE IF ~Truthy(quantity) \/ quantity.t # "str"
    THEN <<FALSE, "Quantity is required", PyNone>>
    ELSE LET parsed_quantity == Float(Strip(quantity.s)) IN
         IF parsed_quantity = ValueError
         THEN <<FALSE, "Quantity must be a valid number", PyNone>>
         ELSE IF LessEqualZero(parsed_quantity)
         THEN <<FALSE, "Quantity must be positive", PyNone>>
         ELSE IF GreaterThan1e12(parsed_quantity)
         THEN <<FALSE, "Quantity is too large", PyNone>>
         ELSE <<TRUE, "", parsed_quantity>>

\* What is typed into, or handed to, the symbol and quantity fields.
SymbolInputs ==
    {PyNone, PyInt(5), PyStr(""), PyStr("  "), PyStr("B"), PyStr("btc"),
     PyStr(" Eth\n"), PyStr("BTC1"), PyStr("BT C"), PyStr("ABCDEFGHIJ"),
     PyStr("ABCDEFGHIJK")}

QuantityInputs ==
    {PyNone, PyInt(5), PyStr(""), PyStr(" "), PyStr("abc"), PyStr("1.5"),
     PyStr(" 2 "), PyStr("+3"), PyStr("0"), PyStr("0.0"), PyStr("-1"),
     PyStr("0.001"), PyStr("1e-3"), PyStr("1_0"), PyStr("1."), PyStr("."),
     PyStr("1e"), PyStr("1.2.3"), PyStr("1e12"), PyStr("1000000000000"),
     PyStr("1000000000001"), PyStr("1000000000000.01"), PyStr("1e13"),
     PyStr("1e-400"), PyStr("1e400"), PyStr("inf"), PyStr("-inf"),
     PyStr("nan"), PyStr("NaN")}

ValidateInputs == {<<symbol, quantity>> : symbol \in SymbolInputs, quantity \in QuantityInputs}

\* The form validates what was entered.
ValidatePortfolioInput ==
    /\ pc = "idle"
    /\ call.op = "validate_portfolio_input"
    /\ pc' = "returned"
    /\ result' = Value(validate_portfolio_input(call.args[1], call.args[2]))
    /\ ncalls' = ncalls + 1
    /\ UNCHANGED <<max_retries, now, cache, call, cache_key, current_time, attempt,
                   from_cache, swept, requests, sleeps, responses, req,
                   session_state, page, self, callers, threads, fetch>>

\* The validation of every pair of inputs.
InitValidate ==
    /\ max_retries = 3
    /\ now = 0
    /\ cache = [op \in CachedOps |-> <<>>]
    /\ pc = "idle"
    /\ \E input \in ValidateInputs :
         call = [op |-> "validate_portfolio_input", args |-> input, kwargs |-> <<>>]
    /\ cache_key = ""
    /\ current_time = 0
    /\ attempt = 0
    /\ result = NoResult
    /\ from_cache = FALSE
    /\ swept = {}
    /\ requests = 0
    /\ sleeps = <<>>
    /\ responses = <<>>
    /\ req = [endpoint |-> "", params |-> PyNone]
    /\ ncalls = 0
    /\ session_state = <<>>
    /\ page = NoPage
    /\ self = 1
    /\ callers = <<>>
    /\ threads = [t \in Threads |-> [pc |-> "idle"]]
    /\ fetch = NoFetch

NextValidate == ValidatePortfolioInput

SpecValidate == InitValidate /\ [][NextValidate]_vars

(* ------------------------------ the homepage --------------------------- *)

\* What fetch_btc_eth_data may return to the run numbered t: both tickers, or
\* the message of the error it caught.
FetchResults(t) ==
    {[success |-> TRUE, btc |-> [symbol |-> "BTCUSDT", lastPrice |-> p],
      eth |-> [symbol |-> "ETHUSDT", lastPrice |-> 3000], timestamp |-> t] :
        p \in {45000, 46000}}
    \cup {[success |-> FALSE, error |-> e, timestamp |-> t] :
            e \in {"API Error: Rate limit exceeded after all retries",
                   "API Error: Request timeout after all retries",
                   "Unexpected error: 'lastPrice'"}}

\* initialize_session_state(): the key is created, holding None, when absent.
initialize_session_state(state) ==
    IF "last_btc_eth_data" \in DOMAIN state THEN state
    ELSE [last_btc_eth_data |-> PyNone]

\* The KPI cards drawn from a result: Bitcoin, then Ethereum.
KpiCards(data) == <<data.btc, data.eth>>

\* Mutant: the result of the fetch is remembered whether or not it succeeded.
RenderHomepage_StoresEveryResult(data) ==
    /\ page.run < MaxRenders
    /\ LET state == initialize_session_state(session_state)
           last == state.last_btc_eth_data
       IN /\ session_state' = [state EXCEPT !.last_btc_eth_data = data]
          /\ page' = IF data.success
                     THEN [run |-> page.run + 1, fetched |-> data, warning |-> "",
                           error |-> "", kpi_cards |-> KpiCards(data)]
                     ELSE IF last # PyNone /\ last.success
                     THEN [run |-> page.run + 1, fetched |-> data,
                           warning |-> "Using cached data due to API error. Data may be stale.",
                           error |-> "", kpi_cards |-> KpiCards(last)]
                     ELSE [run |-> page.run + 1, fetched |-> data, warning |-> "",
                           error |-> "Unable to fetch market data: " \o data.error,
                           kpi_cards |-> <<>>]
    /\ UNCHANGED <<max_retries, now, cache, pc, call, cache_key, current_time,
                   attempt, result, from_cache, swept, requests, sleeps, responses,
                   req, ncalls, self, callers,
                   threads, fetch>>

\* render_homepage(), up to the KPI cards, with data what the fetch returned.
RenderHomepage(data) ==
    /\ page.run < MaxRenders
    /\ LET state == initialize_session_state(session_state)
           last == state.last_btc_eth_data
       IN IF ~data.success
          THEN IF last # PyNone /\ last.success
               THEN /\ session_state' = state
                    /\ page' = [run |-> page.run + 1, fetched |-> data,
                                warning |-> "Using cached data due to API error. Data may be stale.",
                                error |-> "", kpi_cards |-> KpiCards(last)]
               ELSE /\ session_state' = state
                    /\ page' = [run |-> page.run + 1, fetched |-> data, warning |-> "",
                                error |-> "Unable to fetch market data: " \o data.error,
                                kpi_cards |-> <<>>]
          ELSE /\ session_state' = [state EXCEPT !.last_btc_eth_data = data]
               /\ page' = [run |-> page.run + 1, fetched |-> data, warning |-> "",
                           error |-> "", kpi_cards |-> KpiCards(data)]
    /\ UNCHANGED <<max_retries, now, cache, pc, call, cache_key, current_time,
                   attempt, result, from_cache, swept, requests, sleeps, responses,
                   req, ncalls, self, callers,
                   threads, fetch>>

\* One browser session, the homepage script run again and again.
InitHomepage == InitWith({3})

NextHomepage == \E data \in FetchResults(page.run + 1) : RenderHomepage(data)

SpecHomepage == InitHomepage /\ [][NextHomepage]_vars

(* --------------------------- fetch_btc_eth_data ------------------------ *)

BTCCall == [op |-> "get_ticker_24hr", args |-> <<PyStr("BTCUSDT")>>, kwargs |-> <<>>]
ETHCall == [op |-> "get_ticker_24hr", args |-> <<PyStr("ETHUSDT")>>, kwargs |-> <<>>]

\* What the fetch leaves alone when it only moves on in its own body.
FetchFrame ==
    <<max_retries, cache, pc, call, cache_key, current_time, attempt, result,
      from_cache, swept, requests, sleeps, responses, req, ncalls, session_state,
      page, callers, threads>>

\* The function is entered, d seconds after what came before, and builds its
\* client: client = BinanceClient(), at address i.
FetchBegin(i, d) ==
    /\ fetch.pc \in {"idle", "done"}
    /\ pc # "request"
    /\ ncalls < MaxCalls
    /\ self' = i
    /\ now' = now + d
    /\ fetch' = [pc |-> "btc", entered |-> ncalls, btc_data |-> PyNone,
                 result |-> PyNone]
    /\ UNCHANGED FetchFrame

\* client.get_ticker_24hr("BTCUSDT")
FetchCallBTC ==
    /\ fetch.pc = "btc"
    /\ ncalls = fetch.entered
    /\ CallCached(BTCCall)

\* btc_data = the value the BTC call returned.
FetchAssignBTC ==
    /\ fetch.pc = "btc"
    /\ ncalls = fetch.entered + 1
    /\ pc = "returned"
    /\ fetch' = [fetch EXCEPT !.pc = "eth", !.btc_data = result.body]
    /\ UNCHANGED <<FetchFrame, self, now>>

\* client.get_ticker_24hr("ETHUSDT")
FetchCallETH ==
    /\ fetch.pc = "eth"
    /\ ncalls = fetch.entered + 1
    /\ CallCached(ETHCall)

\* return {'success': True, 'btc': btc_data, 'eth': eth_data, 'timestamp': ...}
FetchReturn ==
    /\ fetch.pc = "eth"
    /\ ncalls = fetch.entered + 2
    /\ pc = "returned"
    /\ fetch' = [fetch EXCEPT !.pc = "done",
                              !.result = [success |-> TRUE, btc |-> fetch.btc_data,
                                          eth |-> result.body, timestamp |-> now]]
    /\ UNCHANGED <<FetchFrame, self, now>>

\* Mutant: the error of a call leaves the function as it is.
FetchExcept_Propagates ==
    /\ fetch.pc \in {"btc", "eth"}
    /\ ncalls > fetch.entered
    /\ pc = "raised"
    /\ fetch' = [fetch EXCEPT !.pc = "raised", !.result = result]
    /\ UNCHANGED <<FetchFrame, self, now>>

\* Mutant: the error of the BTC call is put aside and the ETH call goes on.
FetchExcept_GoesOn ==
    /\ fetch.pc \in {"btc", "eth"}
    /\ ncalls > fetch.entered
    /\ pc = "raised"
    /\ fetch' = IF fetch.pc = "btc"
                THEN [fetch EXCEPT !.pc = "eth"]
                ELSE [fetch EXCEPT !.pc = "done",
                        !.result = [success |-> FALSE,
                                    error |-> "API Error: " \o result.msg,
                                    timestamp |-> now]]
    /\ UNCHANGED <<FetchFrame, self, now>>

\* except BinanceAPIError / except Exception: the error of either call
\* becomes a result, the rest of the try block is skipped.
FetchExcept ==
    /\ fetch.pc \in {"btc", "eth"}
    /\ ncalls > fetch.entered
    /\ pc = "raised"
    /\ fetch' = [fetch EXCEPT !.pc = "done",
                   !.result = [success |-> FALSE,
                               error |-> IF result.type = "BinanceAPIError"
                                         THEN "API Error: " \o result.msg
                                         ELSE "Unexpected error: " \o result.msg,
                               timestamp |-> now]]
    /\ UNCHANGED <<FetchFrame, self, now>>

\* The homepage's fetch run again and again, each run with a client of its
\* own and the default max_retries.
InitFetch == InitWith({3})

NextFetch ==
    \/ \E i \in Clients : \E d \in {0, TTL_TICKER} : FetchBegin(i, d)
    \/ FetchCallBTC
    \/ FetchAssignBTC
    \/ FetchCallETH
    \/ FetchReturn
    \/ FetchExcept
    \/ AttemptStep

SpecFetch == InitFetch /\ [][NextFetch]_vars

(* ------------------------- properties: the loop ------------------------ *)

Last(seq) == seq[Len(seq)]

RECURSIVE SumSeq(_)
SumSeq(seq) == IF seq = <<>> THEN 0 ELSE seq[1] + SumSeq(Tail(seq))

\* The failures _make_request retries.
Retryable == {"429", "http", "timeout", "error"}

\* A call has ended after going through _make_request.
RequestEnded == pc \in {"returned", "raised"} /\ ~from_cache

\* C1: for every N in 0..max_retries, a call that met N consecutive 429
\* responses and then a parseable 200 has returned the parsed body after
\* exactly N+1 GET requests and N sleeps of 2^0, 2^1, ..., 2^(N-1) seconds,
\* in that order.
C1_BackoffTiming ==
    \A N \in 0..max_retries :
        responses = [i \in 1..(N + 1) |-> IF i <= N THEN "429" ELSE "ok"]
        => /\ pc = "returned"
           /\ requests = N + 1
           /\ sleeps = [k \in 1..N |-> 2 ^ (k - 1)]
           /\ result = Value(Body)

C1_Witness ==
    /\ max_retries = 3
    /\ pc = "returned"
    /\ responses = <<"429", "429", "429", "ok">>
    /\ sleeps = <<1, 2, 4>>

\* C2: with max_retries = R >= 0 no call issues more than R+1 GET requests,
\* and a call all of whose attempts met a retryable failure has issued
\* exactly R+1 requests and raised BinanceAPIError.
C2_RetryExhaustion ==
    max_retries >= 0 =>
        /\ requests <= max_retries + 1
        /\ (RequestEnded /\ \A i \in DOMAIN responses : responses[i] \in Retryable)
           => /\ pc = "raised"
              /\ requests = max_retries + 1
              /\ result.kind = "exception"
              /\ result.type = "BinanceAPIError"

C2_Witness ==
    /\ max_retries = 3
    /\ pc = "raised"
    /\ responses = <<"429", "http", "timeout", "error">>
    /\ requests = 4

\* C6: an attempt that meets a 200 whose body does not parse is the last
\* attempt of its call: the call has raised BinanceAPIError at once, with no
\* sleep after that attempt and no further GET request, whatever attempts
\* remained.
C6_InvalidJSONNotRetried ==
    \A i \in DOMAIN responses :
        responses[i] = "badjson"
        => /\ i = Len(responses)
           /\ requests = i
           /\ Len(sleeps) = i - 1
           /\ pc = "raised"
           /\ result = BinanceAPIError("Invalid JSON response: Invalid JSON")

C6_Witness ==
    /\ max_retries = 3
    /\ pc = "raised"
    /\ responses = <<"429", "badjson">>
    /\ requests = 2
    /\ sleeps = <<1>>

\* C7: a call ends by returning the parsed value of a 200 or by raising
\* BinanceAPIError: every raise is of that one type, and a call whose last
\* attempt met anything but a parseable 200 has raised, not returned.
C7_SingleErrorKind ==
    /\ pc = "raised" => result.kind = "exception" /\ result.type = "BinanceAPIError"
    /\ pc = "returned" => result.kind = "value"
    /\ (RequestEnded /\ responses # <<>>)
       => IF Last(responses) = "ok"
          THEN pc = "returned" /\ result = Value(Body)
          ELSE pc = "raised"

C7_Witness ==
    /\ pc = "raised"
    /\ max_retries = 3
    /\ responses = <<"timeout", "timeout", "timeout", "timeout">>
    /\ result = BinanceAPIError("Request timeout after all retries")

\* C10: within one call the sleeps separate the attempts one by one: the
\* k-th sleep (from 1) lasts 2^(k-1) seconds, between attempts there are as
\* many sleeps as requests, and a call that has ended made one sleep less
\* than requests, so none after its final attempt; the clock advanced by
\* the sleeps.
C10_OneSleepBetweenAttempts ==
    /\ \A k \in DOMAIN sleeps : sleeps[k] = 2 ^ (k - 1)
    /\ pc = "request" => Len(sleeps) = requests /\ attempt = requests
    /\ (RequestEnded /\ requests > 0) => Len(sleeps) = requests - 1
    /\ ncalls = 1 => now = SumSeq(sleeps)

C10_Witness ==
    /\ pc = "raised"
    /\ max_retries = 3
    /\ requests = 4
    /\ sleeps = <<1, 2, 4>>
    /\ now = 7

(* ------------------------ properties: the cache ------------------------ *)

\* A step in which the caller starts a call of a decorated operation.
CachedCallStep == ncalls' = ncalls + 1 /\ call'.op \in CachedOps

\* C3: a call of a cached operation made while the entry of an earlier call
\* with the same arguments is younger than the TTL does not run the wrapped
\* function (no request; the stored value of that earlier call is returned);
\* a call made when no such entry exists or its age has reached the TTL runs
\* the wrapped function again.
C3_OneFetchPerTTL ==
    [][CachedCallStep =>
        LET op == call'.op
            key == CacheKey(op, call'.args, call'.kwargs)
        IN IF /\ key \in DOMAIN cache[op]
              /\ now - cache[op][key].timestamp < ttl_seconds(op)
           THEN /\ pc' = "returned"
                /\ from_cache'
                /\ requests' = 0
                /\ result' = Value(cache[op][key].data)
                /\ result'.body.answers = call'
                /\ result'.body.serial <= ncalls
           ELSE /\ pc' = "request"
                /\ ~from_cache'
                /\ requests' = 0]_vars

C3_Witness ==
    /\ ncalls = 3
    /\ pc = "request"
    /\ call.op = "get_ticker_24hr"
    /\ cache_key \in swept
    /\ current_time = TTL_TICKER

\* C4: every stored entry holds the value fetched for its own argument set,
\* entries of different argument sets come from different fetches, and a
\* call answered by the cache gets the value an earlier call with the same
\* arguments fetched, never that of another argument set.
C4_OwnValuePerArguments ==
    /\ \A op \in CachedOps : \A k \in DOMAIN cache[op] :
          LET c == cache[op][k].data.answers
          IN c.op = op /\ k = CacheKey(c.op, c.args, c.kwargs)
    /\ \A op \in CachedOps : \A k1, k2 \in DOMAIN cache[op] :
          k1 # k2 => cache[op][k1].data.serial # cache[op][k2].data.serial
    /\ (pc = "returned" /\ from_cache)
       => /\ result.body.answers = call
          /\ result.body.serial < ncalls
          /\ result = Value(cache[call.op][cache_key].data)

C4_Witness ==
    /\ ncalls = 3
    /\ pc = "returned"
    /\ from_cache
    /\ call.op = "get_ticker_24hr"
    /\ result.body.serial = 1
    /\ \E k \in DOMAIN cache[call.op] :
          /\ k # cache_key
          /\ cache[call.op][k].data.serial = 2
          /\ now - cache[call.op][k].timestamp < TTL_TICKER

\* C5: a value returned from the cache comes from an entry whose age at the
\* wrapper's clock reading is below the TTL; a key deleted as expired in a
\* call is not answered from the cache in that call.
C5_OnlyFreshReturned ==
    /\ (pc = "returned" /\ from_cache)
       => /\ cache_key \in DOMAIN cache[call.op]
          /\ current_time - cache[call.op][cache_key].timestamp < ttl_seconds(call.op)
          /\ result = Value(cache[call.op][cache_key].data)
    /\ cache_key \in swept => ~from_cache

C5_Witness ==
    /\ pc = "returned"
    /\ from_cache
    /\ call.op = "get_ticker_24hr"
    /\ current_time - cache[call.op][cache_key].timestamp = TTL_TICKER - 1

\* C8: when a decorated operation raises, the error reaches the caller and
\* no entry is stored under the call's key, so a call with the same
\* arguments that follows runs the wrapped operation again.
C8_FailuresNotCached ==
    [][/\ (pc' = "raised" /\ call'.op \in CachedOps)
          => /\ result'.kind = "exception"
             /\ cache_key' \notin DOMAIN cache'[call'.op]
       /\ (pc = "raised" /\ CachedCallStep /\ call' = call)
          => /\ pc' = "request"
             /\ ~from_cache']_vars

C8_Witness ==
    /\ pc = "raised"
    /\ call.op = "get_ticker_24hr"
    /\ ncalls = 2
    /\ requests = max_retries + 1
    /\ result = BinanceAPIError("Rate limit exceeded after all retries")
    /\ cache[call.op] # <<>>

\* Two calls pass the same arguments: the same operation, the same
\* positional arguments, the same keyword arguments in any order.
SameArguments(c1, c2) ==
    /\ c1.op = c2.op
    /\ c1.args = c2.args
    /\ {c1.kwargs[i] : i \in DOMAIN c1.kwargs} = {c2.kwargs[i] : i \in DOMAIN c2.kwargs}

\* C9: within the TTL a call of a cached operation is answered by the cache
\* exactly when some operation's cache holds an entry fetched with the same
\* arguments (keyword order apart), and then with the value of that entry:
\* different arguments and different operations never share an entry.
C9_KeyIdentity ==
    [][CachedCallStep =>
        /\ from_cache' <=>
              \E op \in CachedOps : \E k \in DOMAIN cache[op] :
                  SameArguments(cache[op][k].data.answers, call')
        /\ from_cache' => SameArguments(result'.body.answers, call')]_vars

C9_Witness ==
    /\ pc = "returned"
    /\ from_cache
    /\ call.op = "get_klines"
    /\ Len(call.kwargs) = 2
    /\ call.kwargs # result.body.answers.kwargs
    /\ \E op \in CachedOps : op # call.op /\ cache[op] # <<>>

\* The message of the error raised when the retries are used up, by what
\* the last attempt met.
ExhaustedMessage(met) ==
    CASE met = "429" -> "Rate limit exceeded after all retries"
      [] met = "http" ->
           "Request failed after all retries: HTTP 500: Internal Server Error"
      [] met = "timeout" -> "Request timeout after all retries"
      [] met = "error" -> "Request failed after all retries: Connection refused"

\* C11: a call that raised after a last attempt that met a 429, another
\* non-200 status, a timeout or a transport error went through the same
\* backoff (max_retries + 1 requests, sleeps 2^0 .. 2^(max_retries-1)) and
\* raised the message of that cause: 'Rate limit exceeded after all
\* retries', 'Request failed after all retries: HTTP <status>: <body>',
\* 'Request timeout after all retries', 'Request failed after all retries:
\* <error>'.
C11_ExhaustionMessages ==
    (pc = "raised" /\ responses # <<>> /\ Last(responses) \in Retryable)
    => /\ result = BinanceAPIError(ExhaustedMessage(Last(responses)))
       /\ requests = max_retries + 1
       /\ sleeps = [k \in 1..max_retries |-> 2 ^ (k - 1)]

C11_Witness ==
    /\ pc = "raised"
    /\ max_retries = 3
    /\ responses = <<"http", "timeout", "error", "http">>
    /\ sleeps = <<1, 2, 4>>
    /\ result = BinanceAPIError(
                  "Request failed after all retries: HTTP 500: Internal Server Error")

\* Two characters that are the same letter, whatever their case.
CasePairs == {<<CharAt(Lowercase, j), CharAt(Uppercase, j)>> : j \in 1..Len(Lowercase)}

SameLetter(a, b) == a = b \/ <<a, b>> \in CasePairs \/ <<b, a>> \in CasePairs

EqualIgnoringCase(s1, s2) ==
    /\ Len(s1) = Len(s2)
    /\ \A i \in 1..Len(s1) : SameLetter(CharAt(s1, i), CharAt(s2, i))

\* u spells s with no lowercase letter left.
IsUpperOf(u, s) ==
    /\ EqualIgnoringCase(u, s)
    /\ \A i \in 1..Len(u) : CharAt(u, i) \notin LowerLetters

\* The call in progress handed req to _make_request (it was not a cache hit).
Outgoing == pc # "idle" /\ ~from_cache

SymbolArg(c) == Bind(c, 1, "symbol", PyNone)

\* c2 is the call c1 but for the case of the letters of its symbol (and for
\* which arguments are written positionally).
SameButSymbolCase(c1, c2) ==
    /\ c2.op = c1.op
    /\ SymbolArg(c1).t = "str" /\ SymbolArg(c2).t = "str"
    /\ EqualIgnoringCase(SymbolArg(c1).s, SymbolArg(c2).s)
    /\ Bind(c1, 2, "interval", PyNone) = Bind(c2, 2, "interval", PyNone)
    /\ Bind(c1, 3, "limit", PyNone) = Bind(c2, 3, "limit", PyNone)

\* C12: get_ticker_24hr and get_klines send the symbol upper-cased, so every
\* spelling of a symbol gives the same outgoing request; get_ticker_24hr
\* called with no symbol, None or an empty one sends no symbol parameter.
C12_SymbolUpperCased ==
    (Outgoing /\ call.op \in {"get_ticker_24hr", "get_klines"})
    => LET symbol == SymbolArg(call) IN
       IF call.op = "get_ticker_24hr" /\ (symbol.t = "None" \/ symbol = PyStr(""))
       THEN /\ req.endpoint = "/ticker/24hr"
            /\ DOMAIN req.params = {"t"}
       ELSE /\ "symbol" \in DOMAIN req.params
            /\ IsUpperOf(req.params.symbol, symbol.s)
            /\ \A c2 \in Calls : SameButSymbolCase(call, c2) => Request(c2) = req

C12_Witness ==
    /\ pc = "returned" /\ ~from_cache
    /\ call = [op |-> "get_klines", args |-> <<PyStr("btcusdt"), PyStr("1h")>>,
               kwargs |-> <<>>]
    /\ req.params.symbol = "BTCUSDT"
    /\ req = Request([op |-> "get_klines",
                      args |-> <<PyStr("BTCUSDT"), PyStr("1h")>>, kwargs |-> <<>>])

\* C13: get_klines sends limit = min(L, 1000): a requested limit above 1000
\* goes out as exactly 1000, one at or below 1000 goes out unchanged, an
\* omitted one goes out as 500, and the outgoing limit never exceeds 1000.
C13_LimitClamped ==
    (Outgoing /\ call.op = "get_klines")
    => LET given == Bind(call, 3, "limit", PyNone) IN
       /\ req.endpoint = "/klines"
       /\ req.params.limit <= 1000
       /\ given = PyNone => req.params.limit = 500
       /\ (given # PyNone /\ given.n > 1000) => req.params.limit = 1000
       /\ (given # PyNone /\ given.n <= 1000) => req.params.limit = given.n

C13_Witness ==
    /\ pc = "returned" /\ ~from_cache
    /\ call = [op |-> "get_klines",
               args |-> <<PyStr("BTCUSDT"), PyStr("1h"), PyInt(1500)>>,
               kwargs |-> <<>>]
    /\ req.params.limit = 1000

\* C14: get_server_time is never cached: whatever was called before and
\* whatever the caches of the other operations hold, every call enters
\* _make_request for the server-time endpoint, a client with
\* max_retries >= 0 has issued at least one GET by the time the call ends,
\* and a returned value is the one served to this call.
C14_ServerTimeNeverCached ==
    (pc # "idle" /\ call.op = "get_server_time")
    => /\ ~from_cache
       /\ req = [endpoint |-> "/time", params |-> PyNone]
       /\ (pc # "request" /\ max_retries >= 0) => requests >= 1
       /\ pc = "returned" => result = Value([serial |-> ncalls, answers |-> call])

C14_Witness ==
    /\ pc = "returned"
    /\ call.op = "get_server_time"
    /\ ncalls = 3
    /\ requests = 1
    /\ result.body.serial = 3
    /\ DOMAIN cache["get_exchange_info"] # {}
    /\ DOMAIN cache["get_ticker_24hr"] # {}

\* C15: the first attempt of a call that receives a 200 with a parseable
\* body ends the call at once: it is the last request, no sleep follows it,
\* and the operation returns the parsed body as it was served.
C15_FirstOKReturns ==
    \A i \in DOMAIN responses :
        responses[i] = "ok"
        => /\ i = Len(responses)
           /\ pc = "returned"
           /\ requests = i
           /\ Len(sleeps) = i - 1
           /\ result = Value([serial |-> ncalls, answers |-> call])

C15_Witness ==
    /\ pc = "returned" /\ ~from_cache
    /\ call.op = "get_klines"
    /\ max_retries = 1
    /\ responses = <<"ok">>
    /\ requests = 1 /\ sleeps = <<>>
    /\ result = Value([serial |-> ncalls, answers |-> call])

\* A step taken while _make_request runs: a request of the loop (or the
\* fall-through of an empty loop) that ends the call with a value or a
\* BinanceAPIError, or moves on to the next attempt of the same call.
C16_StepInCall ==
    pc = "request"
    => /\ \/ attempt \in 0..max_retries /\ requests' = requests + 1
          \/ attempt \notin 0..max_retries /\ requests' = requests /\ pc' = "raised"
       /\ requests' <= max_retries + 1
       /\ \/ pc' = "returned" /\ result'.kind = "value"
          \/ /\ pc' = "raised"
             /\ result'.kind = "exception" /\ result'.type = "BinanceAPIError"
          \/ /\ pc' = "request"
             /\ attempt' = attempt + 1 /\ attempt' <= max_retries
             /\ call' = call /\ ncalls' = ncalls

\* C16: every _make_request call terminates after at most max_retries + 1
\* attempts, with a returned value or a raised BinanceAPIError; nothing the
\* caller does happens inside the retry sequence to end it earlier.
C16_Terminates ==
    /\ [][C16_StepInCall]_vars
    /\ (pc = "request") ~> (pc \in {"returned", "raised"})

C16_Witness ==
    /\ pc = "raised"
    /\ max_retries = 3
    /\ requests = 4
    /\ responses = <<"timeout", "timeout", "timeout", "timeout">>
    /\ result = BinanceAPIError("Request timeout after all retries")

(* ----------------------- properties: the portfolio --------------------- *)

\* calculate_portfolio_value has returned.
PortfolioReturned == pc = "returned" /\ call.op = "calculate_portfolio_value"

SymbolOf(holding) == IF "symbol" \in DOMAIN holding THEN holding.symbol ELSE ""
QuantityOf(holding) == IF "quantity" \in DOMAIN holding THEN holding.quantity ELSE 0

\* The upper-cased symbol of the holding has a price.
HasPrice(holding, prices) ==
    \E k \in DOMAIN prices : IsUpperOf(k, SymbolOf(holding))

PriceOf(holding, prices) ==
    prices[CHOOSE k \in DOMAIN prices : IsUpperOf(k, SymbolOf(holding))]

\* quantity x price of a holding that has a price.
ValueOf(holding, prices) == QuantityOf(holding) * PriceOf(holding, prices)

\* The holdings that have a price, and those that have none, in the order given.
PricedHoldings(holdings, prices) ==
    LET Priced(h) == HasPrice(h, prices) IN SelectSeq(holdings, Priced)

UnpricedHoldings(holdings, prices) ==
    LET Unpriced(h) == ~HasPrice(h, prices) IN SelectSeq(holdings, Unpriced)

\* C17: calculate_portfolio_value partitions the holdings by price
\* availability: the holdings with a price for their upper-cased symbol are,
\* one for one and in order, the returned holdings, each valued quantity x
\* price, and total_value is the sum of these values; the holdings without a
\* price are, one for one, the missing_symbols, add nothing to total_value
\* and are not among the returned holdings.
C17_PartitionByPrice ==
    PortfolioReturned
    => LET holdings == call.args[1]
           prices == call.args[2]
           out == result.body
           priced == PricedHoldings(holdings, prices)
           unpriced == UnpricedHoldings(holdings, prices)
       IN /\ Len(out.portfolio_holdings) = Len(priced)
          /\ \A i \in DOMAIN priced :
               /\ IsUpperOf(out.portfolio_holdings[i].symbol, SymbolOf(priced[i]))
               /\ out.portfolio_holdings[i].quantity = QuantityOf(priced[i])
               /\ out.portfolio_holdings[i].current_value = ValueOf(priced[i], prices)
          /\ out.total_value =
               SumSeq([i \in DOMAIN priced |-> ValueOf(priced[i], prices)])
          /\ Len(out.missing_symbols) = Len(unpriced)
          /\ \A i \in DOMAIN unpriced :
               /\ EqualIgnoringCase(out.missing_symbols[i], SymbolOf(unpriced[i]))
               /\ \A j \in DOMAIN out.portfolio_holdings :
                    out.portfolio_holdings[j].symbol # out.missing_symbols[i]

C17_Witness ==
    /\ PortfolioReturned
    /\ call.args = <<<<[symbol |-> "btc", quantity |-> 1],
                       [symbol |-> "UNKNOWN", quantity |-> 100],
                       [symbol |-> "ETH", quantity |-> 10]>>,
                     [BTC |-> 45000, ETH |-> 3000]>>
    /\ result.body.total_value = 75000
    /\ result.body.missing_symbols = <<"UNKNOWN">>
    /\ Len(result.body.portfolio_holdings) = 2
    /\ result.body.portfolio_holdings[1].symbol = "BTC"

Abs(n) == IF n < 0 THEN -n ELSE n

\* The fraction is within 0.01 of hundredths / 100.
Near(fraction, hundredths) ==
    Abs(100 * fraction.num - hundredths * fraction.den) < fraction.den

\* C18: total_value is the sum of quantity x price over the priced
\* holdings; when it is positive every returned holding's percentage is its
\* value / total_value x 100 and the percentages sum to 100 (59.21, 39.47
\* and 1.32 of 76000 in the BTC/ETH/ADA example); when it is 0 every
\* percentage is still 0.0 and nothing was divided.
C18_Percentages ==
    PortfolioReturned
    => LET holdings == call.args[1]
           prices == call.args[2]
           out == result.body
           priced == PricedHoldings(holdings, prices)
           percentages == [i \in DOMAIN out.portfolio_holdings |->
                              out.portfolio_holdings[i].percentage]
       IN /\ out.total_value =
               SumSeq([i \in DOMAIN priced |-> ValueOf(priced[i], prices)])
          /\ out.total_value > 0
             => /\ \A i \in DOMAIN percentages :
                     percentages[i] =
                       Fraction(out.portfolio_holdings[i].current_value * 100,
                                out.total_value)
                /\ SumSeq([i \in DOMAIN percentages |-> percentages[i].num])
                     = 100 * out.total_value
          /\ out.total_value = 0
             => \A i \in DOMAIN percentages : percentages[i] = ZeroPercentage
          /\ ( /\ holdings = <<[symbol |-> "BTC", quantity |-> 1],
                               [symbol |-> "ETH", quantity |-> 10],
                               [symbol |-> "ADA", quantity |-> 1000]>>
               /\ prices = [BTC |-> 45000, ETH |-> 3000, ADA |-> 1] )
             => /\ out.total_value = 76000
                /\ Near(percentages[1], 5921)
                /\ Near(percentages[2], 3947)
                /\ Near(percentages[3], 132)

C18_Witness ==
    /\ PortfolioReturned
    /\ call.args = <<<<[symbol |-> "BTC", quantity |-> 1],
                       [symbol |-> "ETH", quantity |-> 10],
                       [symbol |-> "ADA", quantity |-> 1000]>>,
                     [BTC |-> 45000, ETH |-> 3000, ADA |-> 1]>>
    /\ result.body.total_value = 76000
    /\ result.body.portfolio_holdings[1].percentage = Fraction(4500000, 76000)

(* ------------------------ properties: the homepage --------------------- *)

\* last_btc_eth_data as the session holds it: None while the key is absent.
LastBtcEthData(state) ==
    IF "last_btc_eth_data" \in DOMAIN state THEN state.last_btc_eth_data ELSE PyNone

\* One run of the homepage script: a failed fetch leaves last_btc_eth_data
\* as it was and draws the cards of the last successful result, or, when
\* there is none, the error message and no card; a successful fetch is
\* remembered and drawn.
C19_RenderStep ==
    page'.run = page.run + 1
    => LET last == LastBtcEthData(session_state)
           fetched == page'.fetched
       IN IF fetched.success
          THEN /\ LastBtcEthData(session_state') = fetched
               /\ page'.kpi_cards = <<fetched.btc, fetched.eth>>
               /\ page'.error = ""
          ELSE /\ LastBtcEthData(session_state') = last
               /\ last # PyNone
                  => /\ page'.kpi_cards = <<last.btc, last.eth>>
                     /\ page'.error = ""
               /\ last = PyNone
                  => /\ page'.kpi_cards = <<>>
                     /\ page'.error = "Unable to fetch market data: " \o fetched.error

\* C19: over any sequence of page renders last_btc_eth_data is unset or a
\* result with success = True, a failed fetch never overwrites it, and a
\* render whose fetch failed shows the last successful result when there is
\* one and otherwise the error message and no KPI card.
C19_FallbackToLastSuccess ==
    /\ [](LastBtcEthData(session_state) = PyNone
          \/ LastBtcEthData(session_state).success = TRUE)
    /\ [][C19_RenderStep]_vars

C19_Witness ==
    /\ page.run = 3
    /\ page.fetched.success = FALSE
    /\ session_state.last_btc_eth_data # PyNone
    /\ session_state.last_btc_eth_data.success = TRUE
    /\ session_state.last_btc_eth_data.timestamp = 1
    /\ page.kpi_cards = <<session_state.last_btc_eth_data.btc,
                          session_state.last_btc_eth_data.eth>>
    /\ page.warning # ""

(* ------------------------- properties: the sweep ----------------------- *)

\* The entries of an operation's cache whose age at time t is at least its TTL.
Expired(entries, op, t) ==
    {key \in DOMAIN entries : t - entries[key].timestamp >= ttl_seconds(op)}

\* An access to a cached operation deletes all the expired entries of that
\* operation's cache, whatever key is asked for, and only those; any other
\* step deletes nothing.
C20_SweepStep ==
    IF CachedCallStep
    THEN LET op == call'.op IN
         /\ swept' = Expired(cache[op], op, now)
         /\ DOMAIN cache'[op] = (DOMAIN cache[op]) \ Expired(cache[op], op, now)
         /\ Expired(cache'[op], op, now') = {}
         /\ \A other \in CachedOps \ {op} : cache'[other] = cache[other]
    ELSE \A op \in CachedOps : DOMAIN cache[op] \subseteq DOMAIN cache'[op]

\* C20: each access to a cached operation first removes every entry of that
\* operation's cache whose age is >= ttl, not only the entry of the
\* requested key, so that no expired entry remains right after the sweep;
\* no eviction happens outside a cache access.
C20_SweepOnAccess == [][C20_SweepStep]_vars

C20_Witness ==
    /\ pc = "request"
    /\ call.op = "get_ticker_24hr"
    /\ Cardinality(swept) = 2
    /\ swept \ {cache_key} # {}
    /\ cache["get_ticker_24hr"] = <<>>

(* ---------------------- properties: the cache entries ------------------ *)

\* Any step: an entry under another key than the one being accessed, whose
\* age is below the TTL, stays as it is; a store adds its entry and drops
\* none.
C21_FrameStep ==
    /\ \A op \in CachedOps : \A k \in DOMAIN cache[op] :
         (k # cache_key' /\ now - cache[op][k].timestamp < ttl_seconds(op))
         => /\ k \in DOMAIN cache'[op]
            /\ cache'[op][k] = cache[op][k]
    /\ (pc = "request" /\ pc' = "returned" /\ call.op \in CachedOps)
       => DOMAIN cache'[call.op] = (DOMAIN cache[call.op]) \cup {cache_key}

\* C21: TTL expiry is the only eviction: a cache access, hit or miss, for
\* one key never removes, replaces or re-timestamps another entry whose age
\* is below the TTL, and a store never makes room by dropping entries.
C21_OnlyTTLEvicts == [][C21_FrameStep]_vars

C21_Witness ==
    /\ pc = "returned" /\ ~from_cache
    /\ call.op = "get_ticker_24hr"
    /\ swept = {cache_key}
    /\ Cardinality(DOMAIN cache["get_ticker_24hr"]) = 2
    /\ \E k \in DOMAIN cache["get_ticker_24hr"] :
         /\ k # cache_key
         /\ cache["get_ticker_24hr"][k].timestamp < current_time
         /\ cache["get_ticker_24hr"][k].data.serial = 2

\* Any step: an entry that stays in the cache keeps the value and the
\* timestamp it was created with; a call answered by the cache gets the
\* stored value of an entry younger than the TTL; a call that finds an entry
\* whose age has reached the TTL is not answered by the cache.
C22_HitStep ==
    /\ \A op \in CachedOps : \A k \in (DOMAIN cache[op]) \cap (DOMAIN cache'[op]) :
         cache'[op][k] = cache[op][k]
    /\ CachedCallStep
       => LET op == call'.op
              key == cache_key'
          IN /\ from_cache'
                => /\ key \in DOMAIN cache[op]
                   /\ now - cache[op][key].timestamp < ttl_seconds(op)
                   /\ result' = Value(cache[op][key].data)
             /\ ( /\ key \in DOMAIN cache[op]
                  /\ now - cache[op][key].timestamp >= ttl_seconds(op) )
                => ~from_cache'

\* C22: a cache hit does not refresh the entry: hits leave its timestamp and
\* value unchanged, so an entry created at time t is a miss for every access
\* at time >= t + ttl however many hits came in between, and a hit returns
\* the value stored by the miss that created the entry.
C22_NoSlidingExpiration == [][C22_HitStep]_vars

C22_Witness ==
    /\ ncalls = 3
    /\ pc = "returned" /\ from_cache
    /\ call.op = "get_ticker_24hr"
    /\ now = TTL_TICKER - 1
    /\ result.body.serial = 1
    /\ cache[call.op][cache_key] = [data |-> result.body, timestamp |-> 0]

\* C23: the timestamp stored with an entry is the clock value read when the
\* wrapper was entered, before the request and its retry sleeps, not the
\* time the response arrived: after a fetch that took d seconds the entry is
\* already d seconds old, and is served for less than ttl - d seconds more.
C23_TimestampAtEntry ==
    /\ (pc = "returned" /\ ~from_cache /\ call.op \in CachedOps)
       => LET entry == cache[call.op][cache_key]
              d == SumSeq(sleeps)
          IN /\ entry.timestamp = current_time
             /\ entry.timestamp = now - d
             /\ KeysToRemove(cache[call.op], now + ttl_seconds(call.op) - d,
                             ttl_seconds(call.op)) # {}
    /\ (pc = "returned" /\ from_cache)
       => now - cache[call.op][cache_key].timestamp < ttl_seconds(call.op)

C23_Witness ==
    /\ pc = "returned" /\ ~from_cache
    /\ call.op = "get_ticker_24hr"
    /\ sleeps = <<1>>
    /\ responses = <<"timeout", "ok">>
    /\ now = TTL_TICKER
    /\ cache[call.op][cache_key].timestamp = TTL_TICKER - 1

(* --------------------- properties: the attempt counter ----------------- *)

\* C24: the attempt counter is shared by all failure kinds within one call:
\* whatever mix of 429, other non-200, timeout and transport error the
\* attempts meet, the k-th failed attempt (from 0) is followed by a sleep of
\* 2^k seconds, no more than max_retries + 1 requests are made, and the
\* message of the final error is that of the failure met by the last
\* attempt alone.
C24_SharedAttemptCounter ==
    /\ requests = Len(responses)
    /\ requests <= IF max_retries >= 0 THEN max_retries + 1 ELSE 0
    /\ \A k \in DOMAIN responses :
         (responses[k] \in Retryable /\ (k < Len(responses) \/ pc = "request"))
         => /\ k <= Len(sleeps)
            /\ sleeps[k] = 2 ^ (k - 1)
    /\ Len(sleeps) <= Len(responses)
    /\ (pc = "raised" /\ responses # <<>> /\ Last(responses) \in Retryable)
       => /\ Len(sleeps) = Len(responses) - 1
          /\ result.msg = ExhaustedMessage(Last(responses))

C24_Witness ==
    /\ pc = "raised"
    /\ max_retries = 3
    /\ responses = <<"429", "http", "timeout", "error">>
    /\ sleeps = <<1, 2, 4>>
    /\ result = BinanceAPIError("Request failed after all retries: Connection refused")

(* ------------------------ properties: the raw key ---------------------- *)

\* A call of the operation in progress that differs from it in the arguments
\* as written (case of the symbol, unclamped limit, positional or keyword)
\* has another key, also when it sends the same request.
RawKeysDistinct ==
    (pc # "idle" /\ call.op \in CachedOps) =>
        \A c \in Calls :
            (c.op = call.op /\ ~SameArguments(c, call))
            => CacheKey(c.op, c.args, c.kwargs) # cache_key

\* C25: the cache key is built from the caller's raw arguments, before
\* upper-casing and clamping: 'btcusdt' and 'BTCUSDT', a limit of 1500 and
\* one of 1000, an argument passed positionally and by keyword have separate
\* entries and each issue their own request within the TTL, although the
\* outgoing requests are identical.
C25_KeyFromRawArguments ==
    /\ RawKeysDistinct
    /\ (pc = "returned" /\ from_cache) => SameArguments(result.body.answers, call)
    /\ \A op \in CachedOps : \A k1, k2 \in DOMAIN cache[op] :
         k1 # k2 => /\ ~SameArguments(cache[op][k1].data.answers,
                                      cache[op][k2].data.answers)
                    /\ cache[op][k1].data.serial # cache[op][k2].data.serial
    /\ (pc # "idle" /\ call.op \in CachedOps /\ cache_key \notin DOMAIN cache[call.op])
       => ~from_cache

C25_Witness ==
    /\ pc = "returned" /\ ~from_cache
    /\ ncalls = 3
    /\ requests = 1
    /\ call = [op |-> "get_klines",
               args |-> <<PyStr("BTCUSDT"), PyStr("1h"), PyInt(1500)>>,
               kwargs |-> <<>>]
    /\ Cardinality(DOMAIN cache["get_klines"]) = 3
    /\ \A k \in DOMAIN cache["get_klines"] :
         Request(cache["get_klines"][k].data.answers) = req

(* ---------------------- properties: client instances ------------------- *)

\* C26: the cache of a cached operation is one mapping for all client
\* instances, with the instance's identity in the key: the same operation
\* with the same arguments through two live instances within the TTL makes
\* two requests, and a call is only ever answered with a value that the same
\* instance fetched.
C26_KeyHoldsInstance ==
    /\ (pc = "returned" /\ from_cache)
       => /\ callers[result.body.serial] = callers[ncalls]
          /\ result.body.answers = call
    /\ \A op \in CachedOps : \A k1, k2 \in DOMAIN cache[op] :
         (k1 # k2 /\ cache[op][k1].data.answers = cache[op][k2].data.answers)
         => callers[cache[op][k1].data.serial] # callers[cache[op][k2].data.serial]
    /\ ( /\ pc # "idle" /\ call.op \in CachedOps
         /\ \A k \in DOMAIN cache[call.op] :
              LET data == cache[call.op][k].data IN
              data.serial < ncalls => (data.answers # call \/ callers[data.serial] # callers[ncalls]) )
       => ~from_cache

C26_Witness ==
    /\ pc = "returned" /\ ~from_cache
    /\ ncalls = 2
    /\ requests = 1
    /\ callers = <<1, 2>>
    /\ Cardinality(DOMAIN cache["get_ticker_24hr"]) = 2
    /\ \A k \in DOMAIN cache["get_ticker_24hr"] :
         cache["get_ticker_24hr"][k].data.answers = call

(* -------------------- properties: callers at the same time ------------- *)

\* Thread t is inside the wrapped method, its request under way.
InFlight(t) == threads[t].pc = "in_func"

\* A step of the threads: a lookup is a hit exactly when the key is in the
\* cache, whatever the other thread is doing; a store puts the storing
\* thread's own result under the key, over whatever is there.
C27_ThreadStep ==
    \A t \in Threads :
        /\ (~InFlight(t) /\ ncalls' = ncalls + 1 /\ threads'[t] # threads[t])
           => LET local == threads'[t] IN
              /\ local.from_cache <=> local.cache_key \in DOMAIN cache[local.call.op]
              /\ ~local.from_cache => local.pc = "in_func"
        /\ (InFlight(t) /\ threads'[t].pc = "returned")
           => LET local == threads[t]
                  data == [serial |-> local.serial, answers |-> local.call]
              IN /\ threads'[t].result = Value(data)
                 /\ cache'[local.call.op][local.cache_key] =
                      [data |-> data, timestamp |-> local.current_time]

\* C27: the cache has no request coalescing and no lock: two callers of the
\* same cached operation with the same arguments that both look up before
\* either stores both run the request, and the entry ends up holding the
\* result of the one that stores last; requests for one key are in flight
\* together only in that case.
C27_NoCoalescing ==
    /\ [](\A t1, t2 \in Threads :
            ( /\ t1 # t2 /\ InFlight(t1) /\ InFlight(t2)
              /\ threads[t1].cache_key = threads[t2].cache_key )
            => threads[t1].cache_key \notin DOMAIN cache[threads[t1].call.op])
    /\ [][C27_ThreadStep]_vars

C27_Witness ==
    /\ threads[1].pc = "returned" /\ threads[2].pc = "returned"
    /\ ~threads[1].from_cache /\ ~threads[2].from_cache
    /\ threads[1].cache_key = threads[2].cache_key
    /\ threads[1].serial = 1 /\ threads[2].serial = 2
    /\ cache[threads[1].call.op][threads[1].cache_key].data.serial = 1

(* -------------------- properties: fetch_btc_eth_data ------------------- *)

\* The calls made since the running (or last) fetch was entered.
FetchCalls == ncalls - fetch.entered

\* A step of the fetch and of the calls it makes: the BTC call is the first
\* call, the ETH call the second, made through the same client once the BTC
\* call has returned; a call that raised ends the fetch with a failure.
C28_FetchStep ==
    /\ (ncalls' = ncalls + 1 /\ call' = BTCCall)
       => fetch.pc = "btc" /\ FetchCalls = 0
    /\ (ncalls' = ncalls + 1 /\ call' = ETHCall)
       => /\ fetch.pc = "eth" /\ FetchCalls = 1
          /\ call = BTCCall /\ pc = "returned"
          /\ fetch.btc_data = result.body
          /\ self = callers[ncalls]
    /\ (fetch.pc \in {"btc", "eth"} /\ pc = "raised" /\ FetchCalls > 0
        /\ fetch' # fetch)
       => /\ fetch'.pc = "done"
          /\ fetch'.result = [success |-> FALSE,
                              error |-> "API Error: " \o result.msg,
                              timestamp |-> now]
          /\ ncalls' = ncalls

\* What a fetch that has ended returned: success with both tickers after two
\* calls that returned, or a failure after a call that raised, the ETH call
\* not made when it was the BTC call.
C28_FetchResult ==
    fetch.pc = "done" =>
        IF fetch.result.success
        THEN /\ FetchCalls = 2 /\ pc = "returned" /\ call = ETHCall
             /\ fetch.result.btc.answers = BTCCall
             /\ fetch.result.eth.answers = ETHCall
             /\ callers[ncalls - 1] = callers[ncalls]
        ELSE /\ pc = "raised" /\ result.type = "BinanceAPIError"
             /\ FetchCalls \in {1, 2}
             /\ FetchCalls = 1 => call = BTCCall
             /\ FetchCalls = 2 => call = ETHCall /\ fetch.btc_data # PyNone

\* C28: fetch_btc_eth_data makes the BTC ticker call and then the ETH ticker
\* call, in that order, through one client; when the BTC call fails the ETH
\* call is not made; the result has success = True only when both calls
\* returned; a BinanceAPIError never leaves the function, it becomes a
\* result with success = False.
C28_FetchSequential ==
    /\ [](fetch.pc \in {"idle", "btc", "eth", "done"})
    /\ [](fetch.pc = "eth" => fetch.btc_data # PyNone)
    /\ []C28_FetchResult
    /\ [][C28_FetchStep]_vars

C28_Witness ==
    /\ fetch.pc = "done"
    /\ ~fetch.result.success
    /\ FetchCalls = 1
    /\ fetch.entered = 2
    /\ requests = 4
    /\ fetch.result.error = "API Error: Request timeout after all retries"

(* ------------------ properties: validate_portfolio_input --------------- *)

\* 0 < q and q <= 1e12 of a float q; nan is below, above and equal to nothing.
Positive(q) ==
    /\ q.kind # "nan"
    /\ ~q.neg
    /\ q.kind = "inf" \/ q.digits # ""

AtMost1e12(q) ==
    /\ q.kind = "finite" \/ (q.kind = "inf" /\ q.neg)
    /\ \/ q.neg
       \/ q.digits = ""
       \/ Order(q) < 12
       \/ Order(q) = 12 /\ q.digits = "1"

\* The stripped, upper-cased symbol is 2 to 10 letters.
SymbolAccepted(symbol) ==
    /\ symbol.t = "str"
    /\ LET name == Upper(Strip(symbol.s))
       IN /\ Len(name) \in 2..10
          /\ \A i \in 1..Len(name) : CharAt(name, i) \in UpperLetters

\* The quantity parses to a number q with 0 < q <= 1e12.
QuantityAccepted(quantity) ==
    /\ quantity.t = "str"
    /\ Float(quantity.s) # ValueError
    /\ Positive(Float(quantity.s))
    /\ AtMost1e12(Float(quantity.s))

SymbolMessages == {"Symbol is required", "Symbol must be 2-10 letters only"}

\* C29: validate_portfolio_input checks the symbol before the quantity and
\* returns the first failure only; the result is valid exactly when the
\* stripped, upper-cased symbol is 2 to 10 letters and the quantity parses
\* to a number q with 0 < q <= 1e12; the parsed quantity is returned exactly
\* when the result is valid, None otherwise; the message is empty exactly
\* when the result is valid.
C29_ValidExactlyWhenAccepted ==
    (pc = "returned" /\ call.op = "validate_portfolio_input") =>
        LET symbol == call.args[1]
            quantity == call.args[2]
            valid == result.body[1]
            message == result.body[2]
            parsed_quantity == result.body[3]
        IN /\ valid <=> (SymbolAccepted(symbol) /\ QuantityAccepted(quantity))
           /\ ~SymbolAccepted(symbol) => message \in SymbolMessages
           /\ (parsed_quantity # PyNone) <=> valid
           /\ valid => parsed_quantity = Float(quantity.s)
           /\ (message = "") <=> valid

(* --------------------- properties: the end of the loop ----------------- *)

UnexpectedError == BinanceAPIError("Unexpected error in request handling")

\* One pass of the loop: it returns, raises, or goes on to a next pass that
\* is still within range(max_retries + 1); the last pass returns or raises.
C30_LoopStep ==
    (pc = "request" /\ max_retries >= 0)
    => /\ requests' = requests + 1
       /\ \/ pc' = "returned" /\ result'.kind = "value"
          \/ pc' = "raised" /\ result'.kind = "exception" /\ result' # UnexpectedError
          \/ pc' = "request" /\ attempt' = attempt + 1 /\ attempt' <= max_retries
       /\ attempt = max_retries => pc' \in {"returned", "raised"}

\* C30: with max_retries >= 0 the statement after the loop of _make_request,
\* raising 'Unexpected error in request handling', is never reached: every
\* pass of the loop returns, raises, or continues with attempts remaining,
\* and the last pass returns or raises.
C30_FallThroughUnreachable ==
    /\ [](max_retries >= 0
          => /\ result # UnexpectedError
             /\ pc = "request" => attempt \in 0..max_retries)
    /\ [][C30_LoopStep]_vars

C30_Witness ==
    /\ max_retries = 0
    /\ pc = "raised"
    /\ responses = <<"429">>
    /\ sleeps = <<>>
    /\ result = BinanceAPIError("Rate limit exceeded after all retries")

====
